---- MODULE Spec2Model ----
(***************************************************************************)
(* Model of the Pi-hole config sync action (latest variant of index.js):   *)
(* run() = getPiholeConfig -> authenticateWithPihole -> applyLists ->      *)
(* applyLocalDnsSettings, a catch block that calls core.setFailed, and a   *)
(* final logoutFromPihole().  Every HTTP call goes through an axios        *)
(* instance wrapped by axios-retry; the appliance is the environment.      *)
(***************************************************************************)
EXTENDS Integers, Sequences, FiniteSets, TLC

VARIABLES
  fileState,      \* "missing" | "malformed" | "ok": the config file on disk
  fileConfig,     \* what yaml.parse yields for the file when it is "ok"
  piholeConfig,   \* the object run() holds after getPiholeConfig
  remote,         \* list entries registered on the appliance
  remoteDns,      \* dns.hosts / dns.cnames of the appliance's configuration
  pc,             \* position of run()
  attempt,        \* failed attempts of the request in flight (axios-retry)
  sid,            \* axiosInstance.defaults.headers.common["sid"]
  existingLists,  \* result of fetchListsFromPihole
  createIdx,      \* loop position of addBlocklists
  dnsPatch,       \* the config object built by applyLocalDnsSettings
  outcome,        \* per call: the response the caller finally got
  lastResp,       \* response of the latest failed attempt of that request
  log,            \* the logical requests issued, in order
  failedMsgs,     \* messages passed to core.setFailed, in order
  errorLog,       \* messages passed to core.error by logoutFromPihole
  logoutInvoked   \* number of invocations of logoutFromPihole

vars == <<fileState, fileConfig, piholeConfig, remote, remoteDns, pc, attempt,
          sid, existingLists, createIdx, dnsPatch, outcome, lastResp, log,
          failedMsgs, errorLog, logoutInvoked>>

(***************************************************************************)
(* Bounds of the input space.                                              *)
(***************************************************************************)
MaxBlocklists == 2
MaxRecords == 1
MaxStrLen == 2

(***************************************************************************)
(* Program constants.                                                      *)
(***************************************************************************)
Retries == 3

\* An attempt that ends without an HTTP response (timeout, network error).
NoResponse == 0
\* Marker of a call that has not returned to its caller (yet).
NotCalled == -1

\* What the appliance (or the network) may answer to one attempt of a call:
\* for each call, one status of every class its caller tells apart.
ResponsesOf(call) ==
  CASE call = "auth" -> {200, 204, 401, NoResponse}
    [] call = "fetch" -> {200, 204, 500, NoResponse}
    [] call = "delete" -> {200, 204, 201, 500, NoResponse}
    [] call = "create" -> {201, 500, NoResponse}
    [] call = "gravity" -> {200, 204, 500, NoResponse}
    [] call = "warmup" -> {200, 401, NoResponse}
    [] call = "patch" -> {200, 403, 500, NoResponse}
    [] call = "logout" -> {204, 401, NoResponse}

\* axios' default validateStatus: the promise resolves for 2xx only.
ValidateStatus(s) == s >= 200 /\ s < 300

Calls == {"auth", "fetch", "delete", "create", "gravity", "warmup", "patch",
          "logout"}


(***************************************************************************)
(* Values: strings that are trimmed are sequences of characters; JS arrays *)
(* of the config are wrapped so that "undefined" and "[]" differ.          *)
(***************************************************************************)
WhiteSpace == {" "}

BoundedSeq(S, n) == UNION {[1..k -> S] : k \in 0..n}

\* The strings of a config: an ip is made of "1", a domain of "a", a CNAME
\* target of "b", each with whitespace anywhere.
IpStrs == BoundedSeq({"1"} \cup WhiteSpace, MaxStrLen)
DomainStrs == BoundedSeq({"a"} \cup WhiteSpace, MaxStrLen)
TargetStrs == BoundedSeq({"b"} \cup WhiteSpace, MaxStrLen)

Undefined == [kind |-> "undefined", items |-> <<>>]
Arr(items) == [kind |-> "array", items |-> items]

\* x && Array.isArray(x)
IsArray(x) == x.kind = "array"

Entry(address, type) == [address |-> address, type |-> type]

ConfigUrls == {"u1", "u2"}
RemoteEntries == {Entry("u1", "block"), Entry("u3", "block"), Entry("u3", "allow")}

HostPool == {[domain |-> <<"a", " ">>, ip |-> <<" ", "1">>]}
CnamePool == {[domain |-> <<" ", "a">>, target |-> <<"b">>]}

BlocklistChoices ==
  {Undefined} \cup {Arr(s) : s \in BoundedSeq(ConfigUrls, MaxBlocklists)}
HostChoices == {Undefined} \cup {Arr(s) : s \in BoundedSeq(HostPool, MaxRecords)}
CnameChoices == {Undefined} \cup {Arr(s) : s \in BoundedSeq(CnamePool, MaxRecords)}

\* "config || {}": an empty document has no section at all.
EmptyConfig ==
  [blocklists |-> Undefined, localDnsRecords |-> Undefined,
   localDnsCnames |-> Undefined]

(***************************************************************************)
(* String.prototype.trim                                                   *)
(***************************************************************************)
RECURSIVE TrimStart(_)
TrimStart(s) ==
  IF s = <<>> THEN s
  ELSE IF Head(s) \in WhiteSpace THEN TrimStart(Tail(s)) ELSE s

RECURSIVE TrimEnd(_)
TrimEnd(s) ==
  IF s = <<>> THEN s
  ELSE IF s[Len(s)] \in WhiteSpace THEN TrimEnd(SubSeq(s, 1, Len(s) - 1)) ELSE s

\* Variant: String.prototype.trimStart in place of trim.
Trim_startOnly(s) == TrimStart(s)

Trim(s) == TrimEnd(TrimStart(s))

(***************************************************************************)
(* applyLocalDnsSettings: building the patch document                      *)
(***************************************************************************)
\* `${record.ip.trim()} ${record.domain.trim()}`
HostEntry(record) == Trim(record.ip) \o <<" ">> \o Trim(record.domain)

\* `${record.domain.trim()},${record.target.trim()}`
CnameEntry(record) == Trim(record.domain) \o <<",">> \o Trim(record.target)

MapHosts(records) == [i \in 1..Len(records) |-> HostEntry(records[i])]
MapCnames(records) == [i \in 1..Len(records) |-> CnameEntry(records[i])]

Null == [isNull |-> TRUE, items |-> <<>>]
Value(items) == [isNull |-> FALSE, items |-> items]

\* const config = { dns: { hosts: null, cnames: null } }
InitialDns == [hosts |-> Null, cnames |-> Null]

\* Variant: the key is left in place with its initial null.
DeleteKey_keepNull(obj, key) == obj

\* delete obj[key]
DeleteKey(obj, key) == [k \in (DOMAIN obj) \ {key} |-> obj[k]]

\* Variant: an empty localDnsRecords section is treated as an absent one.
SetHosts_skipEmpty(dns, cfg) ==
  IF IsArray(cfg.localDnsRecords) /\ cfg.localDnsRecords.items # <<>>
  THEN [dns EXCEPT !["hosts"] = Value(MapHosts(cfg.localDnsRecords.items))]
  ELSE DeleteKey(dns, "hosts")

\* if (localDnsRecords && Array.isArray(localDnsRecords)) ... else delete
SetHosts(dns, cfg) ==
  IF IsArray(cfg.localDnsRecords)
  THEN [dns EXCEPT !["hosts"] = Value(MapHosts(cfg.localDnsRecords.items))]
  ELSE DeleteKey(dns, "hosts")

SetCnames(dns, cfg) ==
  IF IsArray(cfg.localDnsCnames)
  THEN [dns EXCEPT !["cnames"] = Value(MapCnames(cfg.localDnsCnames.items))]
  ELSE DeleteKey(dns, "cnames")

BuildDnsConfig(cfg) == SetCnames(SetHosts(InitialDns, cfg), cfg)

\* Variant: the sections are tested for null instead of for absence.
NothingToPatch_nullTest(dns) ==
  /\ "hosts" \in DOMAIN dns /\ dns["hosts"].isNull
  /\ "cnames" \in DOMAIN dns /\ dns["cnames"].isNull

\* !hasOwnProperty("hosts") && !hasOwnProperty("cnames")
NothingToPatch(dns) == "hosts" \notin DOMAIN dns /\ "cnames" \notin DOMAIN dns

(***************************************************************************)
(* Errors and their messages                                               *)
(***************************************************************************)
\* ${response.status}
StatusStr(s) ==
  CASE s = 200 -> "200" [] s = 201 -> "201" [] s = 204 -> "204"
    [] s = 401 -> "401" [] s = 403 -> "403" [] s = 500 -> "500"
    [] OTHER -> "0"

\* ${response.statusText}
StatusText(s) ==
  CASE s = 200 -> "OK" [] s = 201 -> "Created" [] s = 204 -> "No Content"
    [] s = 401 -> "Unauthorized" [] s = 403 -> "Forbidden"
    [] s = 500 -> "Internal Server Error"
    [] OTHER -> ""

Error(kind, message) == [kind |-> kind, message |-> message]

\* What axios rejects with once axios-retry gives up.
AxiosError(r) ==
  IF r = NoResponse
  THEN Error("AxiosError", <<"timeout of 30000ms exceeded">>)
  ELSE Error("AxiosError", <<"Request failed with status code ", StatusStr(r)>>)

StatusError(prefix, s) ==
  Error("Error", <<prefix, StatusStr(s), " - ", StatusText(s)>>)

AuthError(s) == StatusError("Authentication failed with status: ", s)
FetchError(s) == StatusError("Failed to fetch lists with status: ", s)
DeleteError(s) == StatusError("Failed to delete lists with status: ", s)
GravityError(s) == StatusError("Failed to update gravity with status: ", s)

ConfigNotFoundError ==
  Error("Error", <<"Pi-hole config file not found: ", "pihole-config.yaml">>)
YamlParseError == Error("YAMLParseError", <<"YAMLParseError">>)

PermissionMessage ==
  <<"Could not update Pi-hole config: Please set webserver.api.app_sudo to true in Pi-hole settings (System > Settings > All Settings).">>
PermissionError == Error("Error", PermissionMessage)

\* updateResponse is block-scoped to the try block: reading it in the catch
\* block throws before the intended message is built.
UpdateResponseReferenceError ==
  Error("ReferenceError", <<"updateResponse is not defined">>)

\* Variant: the hint is thrown for every failure of the patch.
PatchCatch_always(r) == PermissionError

\* The catch block of patchPiholeConfig.
PatchCatch(r) ==
  IF r # NoResponse /\ r = 403 THEN PermissionError
  ELSE UpdateResponseReferenceError

\* core.setFailed(`Action failed with error: ${error.message}`)
SetFailedMessage(err) == <<"Action failed with error: ">> \o err.message

\* core.error(`Failed to log out from Pi-hole: ${error.message}`)
LogoutErrorMessage(err) == <<"Failed to log out from Pi-hole: ">> \o err.message

(***************************************************************************)
(* The transport: axios + axios-retry                                      *)
(***************************************************************************)
Succeeds(r) == r # NoResponse /\ ValidateStatus(r)

\* Variant: an off-by-one in the retry budget.
ShouldRetry_inclusive(retryCount) == retryCount <= Retries

\* retryCondition: () => true, retries: 3
ShouldRetry(retryCount) == retryCount < Retries

\* Variant: only failures without a response and 5xx are retried, as the
\* default retryCondition of axios-retry does.
Retrying_transientOnly(r) ==
  /\ ~Succeeds(r)
  /\ r = NoResponse \/ r >= 500
  /\ ShouldRetry(attempt)

Retrying(r) == ~Succeeds(r) /\ ShouldRetry(attempt)

\* HTTP attempts issued so far for the request that is being retried: the
\* ones that failed, and the one axios-retry has just re-issued.
AttemptsIssued == IF attempt = 0 THEN 0 ELSE attempt + 1

SessionToken == "sid-1"
NoToken == "none"
Password == "app-password"
NoBody == "none"

\* Variant: the requests are sent without the sid header.
Request_noHeader(call, body) ==
  log' = IF attempt = 0
         THEN Append(log, [call |-> call, sid |-> NoToken, body |-> body])
         ELSE log

\* One HTTP attempt of the request in flight; the request is logged once,
\* with the sid header the instance has at that moment.
Request(call, body) ==
  log' = IF attempt = 0
         THEN Append(log, [call |-> call, sid |-> sid, body |-> body])
         ELSE log

\* Variant: the re-issued request is not awaited, the caller goes on as if
\* no request were in flight.
Retry_fireAndForget(r) ==
  /\ attempt' = 0
  /\ lastResp' = r

\* Variant: the retry counter is not advanced past the first retry.
Retry_uncounted(r) ==
  /\ attempt' = 1
  /\ lastResp' = r

\* axios-retry re-issues the request, the caller keeps waiting.
Retry(r) ==
  /\ attempt' = attempt + 1
  /\ lastResp' = r

\* The request settles: the caller gets the response or the rejection.
Returned(call, r) ==
  /\ attempt' = 0
  /\ lastResp' = NotCalled
  /\ outcome' = [outcome EXCEPT ![call] = r]

(***************************************************************************)
(* run(): the catch block and what follows it                               *)
(***************************************************************************)
\* Variant: the logout sits inside the try block and is skipped.
AfterTryCatch_noLogout == "done"

\* The statement run() reaches after its try/catch.
AfterTryCatch == "logout"

\* Variant: the catch block logs the error and forgets core.setFailed.
Throw_logOnly(err) ==
  /\ failedMsgs' = failedMsgs
  /\ pc' = AfterTryCatch

\* Variant: the error is reported and the run carries on with the next
\* stage instead of leaving the try block.
Throw_carryOn(err) ==
  /\ failedMsgs' = Append(failedMsgs, SetFailedMessage(err))
  /\ pc' = "dns"

\* catch (error) { core.setFailed(...) }, then on to the logout.
Throw(err) ==
  /\ failedMsgs' = Append(failedMsgs, SetFailedMessage(err))
  /\ pc' = AfterTryCatch

(***************************************************************************)
(* Initial states: a config file, an appliance, run() about to start       *)
(***************************************************************************)
FileConfigs ==
  [blocklists : BlocklistChoices, localDnsRecords : HostChoices,
   localDnsCnames : CnameChoices]

InitialRemoteDns == [hosts |-> <<<<"o", "l", "d">>>>, cnames |-> <<<<"o", ",", "c">>>>]

InitRun ==
  /\ piholeConfig = EmptyConfig
  /\ pc = "getConfig"
  /\ attempt = 0
  /\ sid = NoToken
  /\ existingLists = {}
  /\ createIdx = 1
  /\ dnsPatch = InitialDns
  /\ outcome = [c \in Calls |-> NotCalled]
  /\ lastResp = NotCalled
  /\ log = <<>>
  /\ failedMsgs = <<>>
  /\ errorLog = <<>>
  /\ logoutInvoked = 0

Init ==
  /\ fileState \in {"missing", "malformed", "ok"}
  /\ fileConfig \in IF fileState = "ok" THEN FileConfigs ELSE {EmptyConfig}
  /\ remote \in SUBSET RemoteEntries
  /\ remoteDns = InitialRemoteDns
  /\ InitRun

(***************************************************************************)
(* getPiholeConfig                                                         *)
(***************************************************************************)
\* Variant: the existence test is gone.
FileMissing_never(state) == FALSE

\* !fs.existsSync(configFile)
FileMissing(state) == state = "missing"

GetPiholeConfig ==
  /\ pc = "getConfig"
  /\ IF FileMissing(fileState)
     THEN Throw(ConfigNotFoundError) /\ UNCHANGED piholeConfig
     ELSE IF fileState = "malformed"
     THEN Throw(YamlParseError) /\ UNCHANGED piholeConfig
     ELSE /\ piholeConfig' = fileConfig
          /\ pc' = "auth"
          /\ UNCHANGED failedMsgs
  /\ UNCHANGED <<fileState, fileConfig, remote, remoteDns, attempt, sid,
                 existingLists, createIdx, dnsPatch, outcome, lastResp, log,
                 errorLog, logoutInvoked>>

(***************************************************************************)
(* authenticateWithPihole                                                  *)
(***************************************************************************)
AuthenticateWithPihole ==
  /\ pc = "auth"
  /\ \E r \in ResponsesOf("auth") :
       /\ Request("auth", Password)
       /\ IF Retrying(r)
          THEN Retry(r) /\ UNCHANGED <<outcome, pc, failedMsgs, sid>>
          ELSE /\ Returned("auth", r)
               /\ IF ~Succeeds(r) THEN Throw(AxiosError(r)) /\ UNCHANGED sid
                  ELSE IF r # 200 THEN Throw(AuthError(r)) /\ UNCHANGED sid
                  ELSE /\ sid' = SessionToken
                       /\ pc' = "lists"
                       /\ UNCHANGED failedMsgs
  /\ UNCHANGED <<fileState, fileConfig, piholeConfig, remote, remoteDns,
                 existingLists, createIdx, dnsPatch, errorLog, logoutInvoked>>

(***************************************************************************)
(* applyLists and its steps                                                *)
(***************************************************************************)
\* Variant: the guard is gone, list reconciliation always runs.
SkipLists_never(cfg) == FALSE

\* Variant: the guard tests another section of the config.
SkipLists_otherSection(cfg) == ~IsArray(cfg.localDnsRecords)

\* !piholeConfig.blocklists || !Array.isArray(piholeConfig.blocklists)
SkipLists(cfg) == ~IsArray(cfg.blocklists)

ApplyLists ==
  /\ pc = "lists"
  /\ pc' = IF SkipLists(piholeConfig) THEN "dns" ELSE "fetch"
  /\ UNCHANGED <<fileState, fileConfig, piholeConfig, remote, remoteDns,
                 attempt, sid, existingLists, createIdx, dnsPatch, outcome,
                 lastResp, log, failedMsgs, errorLog, logoutInvoked>>

FetchListsFromPihole ==
  /\ pc = "fetch"
  /\ \E r \in ResponsesOf("fetch") :
       /\ Request("fetch", NoBody)
       /\ IF Retrying(r)
          THEN Retry(r) /\ UNCHANGED <<outcome, pc, failedMsgs, existingLists>>
          ELSE /\ Returned("fetch", r)
               /\ IF ~Succeeds(r)
                  THEN Throw(AxiosError(r)) /\ UNCHANGED existingLists
                  ELSE IF r # 200
                  THEN Throw(FetchError(r)) /\ UNCHANGED existingLists
                  ELSE /\ existingLists' = remote
                       /\ pc' = "delete"
                       /\ UNCHANGED failedMsgs
  /\ UNCHANGED <<fileState, fileConfig, piholeConfig, remote, remoteDns, sid,
                 createIdx, dnsPatch, errorLog, logoutInvoked>>

\* Variant: only the entries of type "block" are put in the batch.
DeleteRequestBody_blockOnly(lists) ==
  {[item |-> l.address, type |-> l.type] : l \in {x \in lists : x.type = "block"}}

\* Variant: every item of the batch is given the type "block".
DeleteRequestBody_allBlock(lists) ==
  {[item |-> l.address, type |-> "block"] : l \in lists}

\* lists.map((list) => ({ item: list.address, type: list.type }))
DeleteRequestBody(lists) == {[item |-> l.address, type |-> l.type] : l \in lists}

\* The appliance removes the entries the batch names.
ApplyDelete(entries, body) ==
  {e \in entries : [item |-> e.address, type |-> e.type] \notin body}

\* Variant: every resolved (2xx) response is taken as a successful delete.
DeleteAccepted_any2xx(s) == s >= 200 /\ s < 300

\* [200, 204].includes(deleteResponse.status)
DeleteAccepted(s) == s \in {200, 204}

DeleteExistingLists ==
  /\ pc = "delete"
  /\ IF existingLists = {}
     THEN /\ pc' = "create"
          /\ UNCHANGED <<remote, attempt, outcome, lastResp, log, failedMsgs>>
     ELSE \E r \in ResponsesOf("delete") :
            /\ Request("delete", DeleteRequestBody(existingLists))
            /\ IF Retrying(r)
               THEN Retry(r) /\ UNCHANGED <<outcome, pc, failedMsgs, remote>>
               ELSE /\ Returned("delete", r)
                    /\ IF ~Succeeds(r)
                       THEN Throw(AxiosError(r)) /\ UNCHANGED remote
                       ELSE /\ remote' = ApplyDelete(remote, DeleteRequestBody(existingLists))
                            /\ IF ~DeleteAccepted(r)
                               THEN Throw(DeleteError(r))
                               ELSE pc' = "create" /\ UNCHANGED failedMsgs
  /\ UNCHANGED <<fileState, fileConfig, piholeConfig, remoteDns, sid,
                 existingLists, createIdx, dnsPatch, errorLog, logoutInvoked>>

\* Variant: the entries are registered with the wrong type.
CreateRequestBody_allow(url) == Entry(url, "allow")

\* { address: url, type: "block" }
CreateRequestBody(url) == Entry(url, "block")

\* The appliance registers the entry.
ApplyCreate(entries, body) == entries \cup {body}

\* Variant: the URLs are walked from the last to the first.
BlocklistUrlAt_reversed(urls, i) == urls[Len(urls) + 1 - i]

\* for (const url of blocklistUrls): the URL of the i-th iteration.
BlocklistUrlAt(urls, i) == urls[i]

AddBlocklists ==
  /\ pc = "create"
  /\ IF createIdx > Len(piholeConfig.blocklists.items)
     THEN /\ pc' = "gravity"
          /\ UNCHANGED <<remote, attempt, outcome, lastResp, log, failedMsgs,
                         createIdx>>
     ELSE \E r \in ResponsesOf("create") :
            LET body == CreateRequestBody(BlocklistUrlAt(piholeConfig.blocklists.items, createIdx))
            IN /\ Request("create", body)
               /\ IF Retrying(r)
                  THEN Retry(r) /\ UNCHANGED <<outcome, pc, failedMsgs, remote, createIdx>>
                  ELSE /\ Returned("create", r)
                       /\ IF ~Succeeds(r)
                          THEN Throw(AxiosError(r)) /\ UNCHANGED <<remote, createIdx>>
                          ELSE /\ remote' = ApplyCreate(remote, body)
                               /\ createIdx' = createIdx + 1
                               /\ UNCHANGED <<pc, failedMsgs>>
  /\ UNCHANGED <<fileState, fileConfig, piholeConfig, remoteDns, sid,
                 existingLists, dnsPatch, errorLog, logoutInvoked>>

UpdateGravity ==
  /\ pc = "gravity"
  /\ \E r \in ResponsesOf("gravity") :
       /\ Request("gravity", NoBody)
       /\ IF Retrying(r)
          THEN Retry(r) /\ UNCHANGED <<outcome, pc, failedMsgs>>
          ELSE /\ Returned("gravity", r)
               /\ IF ~Succeeds(r) THEN Throw(AxiosError(r))
                  ELSE IF r # 200 THEN Throw(GravityError(r))
                  ELSE pc' = "dns" /\ UNCHANGED failedMsgs
  /\ UNCHANGED <<fileState, fileConfig, piholeConfig, remote, remoteDns, sid,
                 existingLists, createIdx, dnsPatch, errorLog, logoutInvoked>>

(***************************************************************************)
(* applyLocalDnsSettings and patchPiholeConfig                             *)
(***************************************************************************)
ApplyLocalDnsSettings ==
  /\ pc = "dns"
  /\ dnsPatch' = BuildDnsConfig(piholeConfig)
  /\ pc' = IF NothingToPatch(dnsPatch') THEN AfterTryCatch ELSE "warmup"
  /\ UNCHANGED <<fileState, fileConfig, piholeConfig, remote, remoteDns,
                 attempt, sid, existingLists, createIdx, outcome, lastResp,
                 log, failedMsgs, errorLog, logoutInvoked>>

\* try { await axiosInstance.get(`${piholeUrl}/config`) } catch (error) {}
\* Variant: a failing warm-up read ends patchPiholeConfig without the patch.
AfterWarmUp_stopOnFailure(r) == IF Succeeds(r) THEN "patch" ELSE AfterTryCatch

\* catch (error) {}: whatever the read gave, the patch comes next.
AfterWarmUp(r) == "patch"

WarmUpConfig ==
  /\ pc = "warmup"
  /\ \E r \in ResponsesOf("warmup") :
       /\ Request("warmup", NoBody)
       /\ IF Retrying(r)
          THEN Retry(r) /\ UNCHANGED <<outcome, pc>>
          ELSE Returned("warmup", r) /\ pc' = AfterWarmUp(r)
  /\ UNCHANGED <<fileState, fileConfig, piholeConfig, remote, remoteDns, sid,
                 existingLists, createIdx, dnsPatch, failedMsgs, errorLog,
                 logoutInvoked>>

\* The appliance replaces the sections the patch names.
ApplyPatch(dns, patch) ==
  [k \in DOMAIN dns |-> IF k \in DOMAIN patch THEN patch[k].items ELSE dns[k]]

PatchPiholeConfig ==
  /\ pc = "patch"
  /\ \E r \in ResponsesOf("patch") :
       /\ Request("patch", dnsPatch)
       /\ IF Retrying(r)
          THEN Retry(r) /\ UNCHANGED <<outcome, pc, failedMsgs, remoteDns>>
          ELSE /\ Returned("patch", r)
               /\ IF ~Succeeds(r)
                  THEN Throw(PatchCatch(r)) /\ UNCHANGED remoteDns
                  ELSE /\ remoteDns' = ApplyPatch(remoteDns, dnsPatch)
                       /\ pc' = AfterTryCatch
                       /\ UNCHANGED failedMsgs
  /\ UNCHANGED <<fileState, fileConfig, piholeConfig, remote, sid,
                 existingLists, createIdx, dnsPatch, errorLog, logoutInvoked>>

(***************************************************************************)
(* logoutFromPihole                                                        *)
(***************************************************************************)
\* Variant: the catch block of logoutFromPihole also calls core.setFailed.
LogoutCatch_setFailed(reported, err) ==
  Append(reported, <<"Action failed with error: ">> \o err.message)

\* catch (error) { core.error(...) }: what the run has reported afterwards.
LogoutCatch(reported, err) == reported

LogoutFromPihole ==
  /\ pc = "logout"
  /\ logoutInvoked' = IF attempt = 0 THEN logoutInvoked + 1 ELSE logoutInvoked
  /\ \E r \in ResponsesOf("logout") :
       /\ Request("logout", NoBody)
       /\ IF Retrying(r)
          THEN Retry(r) /\ UNCHANGED <<outcome, pc, failedMsgs, errorLog>>
          ELSE /\ Returned("logout", r)
               /\ pc' = "done"
               /\ IF Succeeds(r)
                  THEN UNCHANGED <<failedMsgs, errorLog>>
                  ELSE /\ errorLog' = Append(errorLog, LogoutErrorMessage(AxiosError(r)))
                       /\ failedMsgs' = LogoutCatch(failedMsgs, AxiosError(r))
  /\ UNCHANGED <<fileState, fileConfig, piholeConfig, remote, remoteDns, sid,
                 existingLists, createIdx, dnsPatch>>

Next ==
  \/ GetPiholeConfig
  \/ AuthenticateWithPihole
  \/ ApplyLists
  \/ FetchListsFromPihole
  \/ DeleteExistingLists
  \/ AddBlocklists
  \/ UpdateGravity
  \/ ApplyLocalDnsSettings
  \/ WarmUpConfig
  \/ PatchPiholeConfig
  \/ LogoutFromPihole

Spec == Init /\ [][Next]_vars

\* Every attempt gets a response or times out (timeout: 30000), and the
\* event loop runs the continuation of every settled promise: a step that
\* can be taken is taken.
\* Whether a run ends does not hang on which entries the appliance has,
\* only on whether it has any (the bulk delete is skipped when it has none).
InitFair ==
  /\ fileState \in {"missing", "malformed", "ok"}
  /\ fileConfig \in IF fileState = "ok" THEN FileConfigs ELSE {EmptyConfig}
  /\ remote \in {{}, RemoteEntries}
  /\ remoteDns = InitialRemoteDns
  /\ InitRun

FairSpec == InitFair /\ [][Next]_vars /\ WF_vars(Next)

(***************************************************************************)
(* Serialization of DNS records on its own: applyLocalDnsSettings applied  *)
(* to every record over the bounded strings, from the state in which run() *)
(* calls it (config loaded, authenticated, no blocklists section).         *)
(***************************************************************************)
HostRecords == [domain : DomainStrs, ip : IpStrs]
CnameRecords == [domain : DomainStrs, target : TargetStrs]

\* A config with one DNS section: host records, or CNAME records.
HostsOnly(h) ==
  [blocklists |-> Undefined, localDnsRecords |-> Arr(h), localDnsCnames |-> Undefined]
CnamesOnly(c) ==
  [blocklists |-> Undefined, localDnsRecords |-> Undefined, localDnsCnames |-> Arr(c)]

InitSerialize ==
  /\ fileState = "ok"
  /\ \E n \in 0..MaxRecords :
       \/ \E h \in [1..n -> HostRecords] : fileConfig = HostsOnly(h)
       \/ \E c \in [1..n -> CnameRecords] : fileConfig = CnamesOnly(c)
  /\ piholeConfig = fileConfig
  /\ remote = {}
  /\ remoteDns = InitialRemoteDns
  /\ pc = "dns"
  /\ attempt = 0
  /\ sid = SessionToken
  /\ existingLists = {}
  /\ createIdx = 1
  /\ dnsPatch = InitialDns
  /\ outcome = [c \in Calls |-> IF c = "auth" THEN 200 ELSE NotCalled]
  /\ lastResp = NotCalled
  /\ log = <<[call |-> "auth", sid |-> NoToken, body |-> Password]>>
  /\ failedMsgs = <<>>
  /\ errorLog = <<>>
  /\ logoutInvoked = 0

NextSerialize == ApplyLocalDnsSettings

SpecSerialize == InitSerialize /\ [][NextSerialize]_vars

(***************************************************************************)
(* Vocabulary of the properties                                            *)
(***************************************************************************)
Range(f) == {f[i] : i \in DOMAIN f}

\* The logical requests of a given call that the run has issued so far.
RequestsOf(call) == {i \in 1..Len(log) : log[i].call = call}
Issued(call) == RequestsOf(call) # {}

ListCalls == {"fetch", "delete", "create", "gravity"}
DnsCalls == {"warmup", "patch"}

Finished == pc = "done"
ReportedFailure == failedMsgs # <<>>
ConfigLoaded == fileState = "ok" /\ pc # "getConfig"

\* The caller got a rejection: no response at all, or a status outside 2xx.
Rejected(call) == outcome[call] # NotCalled /\ ~Succeeds(outcome[call])

(***************************************************************************)
(* C1: after a run that ends in success and whose configuration has a      *)
(* blocklists section, the entries registered on the appliance are exactly *)
(* the configured URLs, each of type block, whatever was registered before.*)
(***************************************************************************)
DesiredEntries == {Entry(u, "block") : u \in Range(fileConfig.blocklists.items)}

C1_FullReplace ==
  (Finished /\ ~ReportedFailure /\ fileState = "ok" /\ IsArray(fileConfig.blocklists))
    => remote = DesiredEntries

\* desired [u1, u2], prior remote {u3}: the run ends with {u1, u2}.
C1_Witness ==
  /\ Finished /\ ~ReportedFailure
  /\ fileConfig.blocklists = Arr(<<"u1", "u2">>)
  /\ existingLists = {Entry("u3", "block")}
  /\ remote = {Entry("u1", "block"), Entry("u2", "block")}

(***************************************************************************)
(* C2: logoutFromPihole is invoked exactly once in every run, whatever     *)
(* stage failed, and a failing logout changes nothing in what the run      *)
(* reports: it neither adds a failure nor replaces the reported one.       *)
(***************************************************************************)
C2_LogoutOnce ==
  /\ [](logoutInvoked <= 1 /\ Cardinality(RequestsOf("logout")) = logoutInvoked)
  /\ [](Finished => logoutInvoked = 1)
  /\ [][pc = "logout" => failedMsgs' = failedMsgs]_vars

\* A successful run whose logout was rejected.
C2_Witness ==
  /\ Finished /\ logoutInvoked = 1
  /\ Rejected("logout") /\ errorLog # <<>>
  /\ ~ReportedFailure
  /\ Issued("gravity") /\ Issued("patch")

(***************************************************************************)
(* C3: if the bulk delete returns a status other than 200 or 204, no       *)
(* create call is issued in that run and the run is reported as failed.    *)
(***************************************************************************)
C3_DeleteFailureStopsCreate ==
  outcome["delete"] \notin {NotCalled, 200, 204}
    => ~Issued("create") /\ Len(failedMsgs) = 1

\* The appliance answered 201 to the bulk delete and the run has finished.
C3_Witness ==
  /\ Finished
  /\ outcome["delete"] = 201
  /\ Len(fileConfig.blocklists.items) = 2

(***************************************************************************)
(* C4: if authentication returns 401, no list call and no DNS call is      *)
(* issued, the logout is still attempted, and the run is reported as       *)
(* failed whether the logout succeeds or not.                              *)
(***************************************************************************)
C4_AuthFailure ==
  outcome["auth"] = 401
    => /\ \A i \in 1..Len(log) : log[i].call \notin (ListCalls \cup DnsCalls)
       /\ Len(failedMsgs) = 1
       /\ pc \in {"logout", "done"}
       /\ Finished => Issued("logout")

\* 401 on authentication, a config with all three sections, logout rejected.
C4_Witness ==
  /\ Finished
  /\ outcome["auth"] = 401
  /\ Rejected("logout")
  /\ IsArray(fileConfig.blocklists) /\ IsArray(fileConfig.localDnsRecords)

(***************************************************************************)
(* C5 as stated: with an empty or an absent blocklists section the run     *)
(* issues no list-fetch, no bulk-delete, no create and no rebuild call.    *)
(* It fails for the empty sequence: [] is an array, so applyLists goes on  *)
(* to fetch, delete what is registered, and rebuild.                       *)
(***************************************************************************)
BlocklistsAbsent == ~IsArray(fileConfig.blocklists)
BlocklistsEmpty ==
  IsArray(fileConfig.blocklists) /\ fileConfig.blocklists.items = <<>>

C5_EmptyOrAbsentNoListCall ==
  (BlocklistsAbsent \/ BlocklistsEmpty)
    => \A i \in 1..Len(log) : log[i].call \notin ListCalls

(***************************************************************************)
(* C5 amended: with an absent blocklists section the run issues no         *)
(* list-fetch, no bulk-delete, no create and no rebuild call; with an      *)
(* empty sequence it issues no create call.                                *)
(***************************************************************************)
C5_AbsentNoListCall ==
  /\ BlocklistsAbsent => \A i \in 1..Len(log) : log[i].call \notin ListCalls
  /\ BlocklistsEmpty => ~Issued("create")

\* A finished, successful run over a config without blocklists, on an
\* appliance that has entries registered.
C5_Witness ==
  /\ Finished /\ ~ReportedFailure
  /\ fileState = "ok" /\ BlocklistsAbsent
  /\ outcome["auth"] = 200
  /\ remote # {}

(***************************************************************************)
(* C6: with neither a localDnsRecords nor a localDnsCnames section, the    *)
(* run issues no call to the configuration endpoint: no warm-up read and   *)
(* no patch.                                                               *)
(***************************************************************************)
NoDnsSection ==
  ~IsArray(fileConfig.localDnsRecords) /\ ~IsArray(fileConfig.localDnsCnames)

C6_NoDnsSectionNoConfigCall ==
  NoDnsSection => \A i \in 1..Len(log) : log[i].call \notin DnsCalls

\* applyLocalDnsSettings has run (after the rebuild) and the run succeeded.
C6_Witness ==
  /\ Finished /\ ~ReportedFailure
  /\ fileState = "ok" /\ NoDnsSection
  /\ outcome["gravity"] = 200
  /\ "hosts" \notin DOMAIN dnsPatch /\ "cnames" \notin DOMAIN dnsPatch

(***************************************************************************)
(* C7: the patch sent to the appliance has a hosts section iff             *)
(* localDnsRecords is present and a cnames section iff localDnsCnames is   *)
(* present; a section that is there is never null.                         *)
(***************************************************************************)
C7_PatchSections ==
  \A i \in RequestsOf("patch") :
    LET dns == log[i].body
    IN /\ ("hosts" \in DOMAIN dns) <=> IsArray(fileConfig.localDnsRecords)
       /\ ("cnames" \in DOMAIN dns) <=> IsArray(fileConfig.localDnsCnames)
       /\ \A k \in DOMAIN dns : ~dns[k].isNull

\* Only localDnsRecords is configured: the patch has hosts and no cnames key.
C7_Witness ==
  /\ IsArray(fileConfig.localDnsRecords) /\ ~IsArray(fileConfig.localDnsCnames)
  /\ \E i \in RequestsOf("patch") : DOMAIN log[i].body = {"hosts"}

(***************************************************************************)
(* C8: every host record becomes the trimmed ip, one space, the trimmed    *)
(* domain; every CNAME record the trimmed domain, a comma, the trimmed     *)
(* target; the patch sections have one entry per record, in config order.  *)
(* "Trimmed" is stated by what it means, not by how trim computes it.      *)
(***************************************************************************)
AllWhiteSpace(s) == \A k \in 1..Len(s) : s[k] \in WhiteSpace

\* t is s without its leading and trailing whitespace.
IsTrimOf(t, s) ==
  /\ t # <<>> => t[1] \notin WhiteSpace /\ t[Len(t)] \notin WhiteSpace
  /\ \E i \in 0..Len(s) :
       /\ i + Len(t) <= Len(s)
       /\ AllWhiteSpace(SubSeq(s, 1, i))
       /\ SubSeq(s, i + 1, i + Len(t)) = t
       /\ AllWhiteSpace(SubSeq(s, i + Len(t) + 1, Len(s)))

\* e is left, then the separator, then right, both trimmed.
IsJoinOf(e, left, sep, right) ==
  \E n \in 1..Len(e) :
    /\ e[n] = sep
    /\ IsTrimOf(SubSeq(e, 1, n - 1), left)
    /\ IsTrimOf(SubSeq(e, n + 1, Len(e)), right)

PatchBuilt == pc # "dns"

PermissionFailure == <<"Action failed with error: ">> \o PermissionMessage

C9_PermissionError ==
  /\ outcome["patch"] = 403 => failedMsgs = <<PermissionFailure>>
  /\ (\E i \in 1..Len(failedMsgs) : failedMsgs[i] = PermissionFailure)
       => outcome["patch"] = 403

\* The patch was answered 403 on every attempt and the run has finished.
C9_Witness ==
  /\ Finished
  /\ outcome["patch"] = 403
  /\ outcome["warmup"] = 200

(***************************************************************************)
(* C10: the run reports success iff config loading, authentication and     *)
(* every requested section went through without a fatal error; otherwise   *)
(* it reports failure exactly once, with the message of the error thrown   *)
(* by the first stage that failed, and nothing done afterwards (the        *)
(* logout) changes that report.                                            *)
(***************************************************************************)
ConfigFatal == pc # "getConfig" /\ fileState # "ok"
AuthFatal == outcome["auth"] \notin {NotCalled, 200}
ListsFatal ==
  \/ outcome["fetch"] \notin {NotCalled, 200}
  \/ outcome["delete"] \notin {NotCalled, 200, 204}
  \/ Rejected("create")
  \/ outcome["gravity"] \notin {NotCalled, 200}
DnsFatal == Rejected("patch")

AnyFatal == ConfigFatal \/ AuthFatal \/ ListsFatal \/ DnsFatal

\* The stages run in this order and a fatal error ends the try block, so
\* the first fatal error is the one of the earliest stage that has one.
FirstFatalMessage ==
  IF ConfigFatal
  THEN IF fileState = "missing"
       THEN <<"Pi-hole config file not found: ", "pihole-config.yaml">>
       ELSE <<"YAMLParseError">>
  ELSE IF AuthFatal
  THEN IF Rejected("auth") THEN AxiosError(outcome["auth"]).message
       ELSE <<"Authentication failed with status: ", StatusStr(outcome["auth"]),
              " - ", StatusText(outcome["auth"])>>
  ELSE IF outcome["fetch"] \notin {NotCalled, 200}
  THEN IF Rejected("fetch") THEN AxiosError(outcome["fetch"]).message
       ELSE <<"Failed to fetch lists with status: ", StatusStr(outcome["fetch"]),
              " - ", StatusText(outcome["fetch"])>>
  ELSE IF outcome["delete"] \notin {NotCalled, 200, 204}
  THEN IF Rejected("delete") THEN AxiosError(outcome["delete"]).message
       ELSE <<"Failed to delete lists with status: ", StatusStr(outcome["delete"]),
              " - ", StatusText(outcome["delete"])>>
  ELSE IF Rejected("create") THEN AxiosError(outcome["create"]).message
  ELSE IF outcome["gravity"] \notin {NotCalled, 200}
  THEN IF Rejected("gravity") THEN AxiosError(outcome["gravity"]).message
       ELSE <<"Failed to update gravity with status: ", StatusStr(outcome["gravity"]),
              " - ", StatusText(outcome["gravity"])>>
  ELSE PatchCatch(outcome["patch"]).message

AuthStatusFailure(s) ==
  <<"Action failed with error: ", "Authentication failed with status: ",
    StatusStr(s), " - ", StatusText(s)>>

C11_AuthErrorCarriesStatus ==
  outcome["auth"] \notin {NotCalled, NoResponse, 200}
    => failedMsgs = <<AuthStatusFailure(outcome["auth"])>>

(***************************************************************************)
(* C12: list reconciliation issues its calls in the order fetch, bulk      *)
(* delete, one create per URL in configuration order, rebuild; no create   *)
(* is issued before the bulk delete (when there is something to delete)    *)
(* has succeeded, and the rebuild only after the last create has.          *)
(***************************************************************************)
ListRank(call) ==
  CASE call = "fetch" -> 1 [] call = "delete" -> 2 [] call = "create" -> 3
    [] call = "gravity" -> 4 [] OTHER -> 0

\* The position of request i among the create requests.
CreateOrdinal(i) == Cardinality({j \in RequestsOf("create") : j <= i})

C12_ListCallOrder ==
  LET urls == piholeConfig.blocklists.items
      listReqs == {i \in 1..Len(log) : log[i].call \in ListCalls}
  IN /\ \A i, j \in listReqs :
          i < j => /\ ListRank(log[i].call) <= ListRank(log[j].call)
                   /\ log[i].call = log[j].call => log[i].call = "create"
     /\ \A i \in RequestsOf("create") :
          /\ CreateOrdinal(i) <= Len(urls)
          /\ log[i].body = Entry(urls[CreateOrdinal(i)], "block")
     /\ Issued("create") =>
          /\ outcome["fetch"] = 200
          /\ IF existingLists = {} THEN ~Issued("delete")
             ELSE outcome["delete"] \in {200, 204}
     /\ Issued("gravity") =>
          /\ Cardinality(RequestsOf("create")) = Len(urls)
          /\ Issued("create") => Succeeds(outcome["create"])
          /\ Issued("fetch")

\* A finished run that deleted two entries, created u2 then u1, and rebuilt.
C12_Witness ==
  /\ Finished
  /\ piholeConfig.blocklists = Arr(<<"u2", "u1">>)
  /\ Cardinality(existingLists) = 2
  /\ outcome["delete"] = 204
  /\ Cardinality(RequestsOf("create")) = 2
  /\ outcome["gravity"] = 200

(***************************************************************************)
(* C13 as stated: the transport issues at most 3 attempts in total for a   *)
(* request before the failure is surfaced.  It fails: retries: 3 allows    *)
(* three retries after the first attempt.                                  *)
(***************************************************************************)
C13_AtMostThreeAttempts == AttemptsIssued <= 3

(***************************************************************************)
(* C13 amended: the transport issues at most 4 attempts in total for a     *)
(* request, the first one and at most 3 retries, before the failure is     *)
(* surfaced.                                                               *)
(***************************************************************************)
C13_AtMostFourAttempts ==
  /\ AttemptsIssued <= 1 + Retries
  /\ attempt \in 0..Retries

\* The fourth attempt of a create request is in flight.
C13_Witness ==
  /\ pc = "create"
  /\ AttemptsIssued = 4
  /\ lastResp = 500

(***************************************************************************)
(* C14: when the config file does not exist, the run fails before any call *)
(* to the authentication, list or configuration endpoints.                 *)
(***************************************************************************)
C14_MissingConfigNoCall ==
  fileState = "missing"
    => /\ \A i \in 1..Len(log) : log[i].call = "logout"
       /\ pc # "getConfig" => ReportedFailure
       /\ sid = NoToken

\* The file is missing, the run has finished, only the logout was sent.
C14_Witness ==
  /\ Finished
  /\ fileState = "missing"
  /\ Issued("logout")
  /\ remote # {}

(***************************************************************************)
(* C15 as stated: on every failing run the logout is issued, and its       *)
(* outcome known, before the failure is reported.  It fails: run() calls   *)
(* core.setFailed in its catch block and calls logoutFromPihole after it.  *)
(***************************************************************************)
C15_LogoutBeforeFailureReport ==
  ReportedFailure => outcome["logout"] # NotCalled

(***************************************************************************)
(* C15 amended: on every failing run the failure report comes before the   *)
(* logout: the failure is reported when the error is caught, the logout    *)
(* call is issued after that, nothing is reported once the logout has been *)
(* issued, and the run ends only after the logout has settled.             *)
(***************************************************************************)
C15_FailureReportBeforeLogout ==
  /\ []((AnyFatal /\ Issued("logout")) => ReportedFailure)
  /\ [][failedMsgs' # failedMsgs => (~Issued("logout"))']_vars
  /\ [](Finished => outcome["logout"] # NotCalled)

\* The rebuild failed and is reported; the logout has not been sent yet.
C15_Witness ==
  /\ pc = "logout" /\ attempt = 0
  /\ Rejected("gravity")
  /\ ReportedFailure
  /\ ~Issued("logout")

(***************************************************************************)
(* C16 as stated: a 401 answer to the authentication call is not retried,  *)
(* exactly one POST /auth is issued.  It fails: retryCondition is          *)
(* () => true, so the request is re-issued after a 401 as after any error. *)
(***************************************************************************)
C16_NoRetryAfter401 ==
  ~(pc = "auth" /\ lastResp = 401 /\ AttemptsIssued > 1)

(***************************************************************************)
(* C16 amended: a 401 answer to the authentication call is retried like    *)
(* any other failure: POST /auth is re-issued up to 3 times, and the 401   *)
(* reaches the caller only as the answer to the fourth attempt.            *)
(***************************************************************************)
C16_RetriedAfter401 ==
  /\ []((pc = "auth" /\ lastResp = 401) => attempt \in 1..Retries)
  /\ [][(outcome["auth"] = NotCalled /\ outcome'["auth"] = 401)
          => AttemptsIssued = 1 + Retries]_vars

\* Three POST /auth were answered 401 and the fourth is in flight.
C16_Witness ==
  /\ pc = "auth"
  /\ lastResp = 401
  /\ AttemptsIssued = 4

(***************************************************************************)
(* C17: when the patch call fails with a status other than 403, the run    *)
(* fails with a generic API error whose message carries the status and the *)
(* reason text of the patch response.  It fails: the catch block reads     *)
(* updateResponse, which is not in scope there.                            *)
(***************************************************************************)
PatchStatusFailure(s) ==
  <<"Action failed with error: ", "Failed to update Pi-hole config with status: ",
    StatusStr(s), " - ", StatusText(s)>>

C17_PatchErrorCarriesStatus ==
  (Rejected("patch") /\ outcome["patch"] \notin {NoResponse, 403})
    => failedMsgs = <<PatchStatusFailure(outcome["patch"])>>

(***************************************************************************)
(* C18: a DNS patch is preceded by exactly one warm-up read of the         *)
(* configuration endpoint, whose result is discarded: a failing warm-up    *)
(* read neither fails the run nor keeps the patch call from being issued.  *)
(* One read is one request of the program; the transport re-sends it when  *)
(* it fails, as it does every request.                                     *)
(***************************************************************************)
C18_WarmUpBeforePatch ==
  /\ Cardinality(RequestsOf("warmup")) <= 1
  /\ \A i \in RequestsOf("patch") : i > 1 /\ log[i - 1].call = "warmup"
  /\ outcome["warmup"] # NotCalled => (pc = "patch" \/ Issued("patch"))
  /\ (Rejected("warmup") /\ ~Rejected("patch")) => ~ReportedFailure

\* The warm-up read was rejected, the patch was sent and accepted, and the
\* run ended in success.
C18_Witness ==
  /\ Finished
  /\ Rejected("warmup")
  /\ Cardinality(RequestsOf("warmup")) = 1
  /\ outcome["patch"] = 200
  /\ ~ReportedFailure

(***************************************************************************)
(* C19: when the k-th create call fails the run fails, no later create and *)
(* no rebuild is issued, and the appliance keeps the position reached:     *)
(* the deleted entries stay deleted and exactly the URLs created before    *)
(* the failing call are registered.                                        *)
(***************************************************************************)
CreatedBefore(k) ==
  {Entry(piholeConfig.blocklists.items[j], "block") : j \in 1..(k - 1)}

C19_CreateFailureLeavesPartialState ==
  Rejected("create")
    => /\ Len(failedMsgs) = 1
       /\ pc = "logout" \/ pc = "done"
       /\ Cardinality(RequestsOf("create")) = createIdx
       /\ ~Issued("gravity")
       /\ remote = CreatedBefore(createIdx)
       /\ \A e \in existingLists : e \in remote => e \in CreatedBefore(createIdx)

\* The second create was rejected: the first URL is registered, the entry
\* that was there before the run is gone.
C19_Witness ==
  /\ Finished
  /\ Rejected("create")
  /\ createIdx = 2
  /\ piholeConfig.blocklists.items = <<"u1", "u2">>
  /\ existingLists = {Entry("u3", "block")}
  /\ remote = {Entry("u1", "block")}

(***************************************************************************)
(* C20: after the first fatal failure of a call (authentication, fetch,    *)
(* bulk delete, create, rebuild or patch) the only further request of the  *)
(* run is the logout; a failure in list reconciliation means no warm-up    *)
(* and no patch, and no stage is run a second time.                        *)
(***************************************************************************)
CallFatal == AuthFatal \/ ListsFatal \/ DnsFatal

C20_FailFast ==
  /\ [](CallFatal => (pc = "logout" \/ pc = "done"))
  /\ [](AuthFatal => \A i \in 1..Len(log) : log[i].call = "auth" \/ log[i].call = "logout")
  /\ [](ListsFatal => \A c \in DnsCalls : ~Issued(c))
  /\ [](\A c \in Calls \ {"create"} : Cardinality(RequestsOf(c)) <= 1)
  /\ [][(CallFatal /\ log' # log)
          => (Len(log') = Len(log) + 1 /\ log'[Len(log')].call = "logout")]_vars

\* The rebuild failed in a run whose config has DNS sections: the run ended
\* with the logout and without a warm-up or a patch.
C20_Witness ==
  /\ Finished
  /\ Rejected("gravity")
  /\ ~NoDnsSection
  /\ Issued("logout")
  /\ \A c \in DnsCalls : ~Issued(c)

(***************************************************************************)
(* C21: the session token is written once, by a successful authentication  *)
(* (and not at all in a run whose authentication does not succeed); every  *)
(* list or DNS request is issued after that write and carries the token,   *)
(* none is issued without a session token.                                 *)
(***************************************************************************)
C21_TokenWrittenOnce ==
  /\ [](sid = (IF outcome["auth"] = 200 THEN SessionToken ELSE NoToken))
  /\ [][sid' # sid => /\ sid = NoToken /\ sid' = SessionToken
                      /\ pc = "auth" /\ outcome'["auth"] = 200]_vars
  /\ [](\A i \in 1..Len(log) :
          log[i].call \in ListCalls \cup DnsCalls
            => /\ log[i].sid = SessionToken
               /\ \E j \in 1..(i - 1) : log[j].call = "auth")
  /\ [][log' # log => (log'[Len(log')].call \in ListCalls \cup DnsCalls
                         => sid = SessionToken)]_vars

\* A run that sent list requests and DNS requests, all with the token.
C21_Witness ==
  /\ Finished
  /\ sid = SessionToken
  /\ Issued("create") /\ Issued("gravity")
  /\ Issued("warmup") /\ Issued("patch")
  /\ \A i \in 2..(Len(log) - 1) : log[i].sid = SessionToken

(***************************************************************************)
(* C22: at most one HTTP request is outstanding at every point of a run:   *)
(* each request, the logout and every retry included, is issued only after *)
(* the request before it has completed or failed.                          *)
(***************************************************************************)
\* The logged requests whose result the caller has not got yet.
Outstanding ==
  {i \in 1..Len(log) :
     IF log[i].call = "create"
     THEN pc = "create" /\ CreateOrdinal(i) = createIdx
     ELSE outcome[log[i].call] = NotCalled}

C22_OneRequestOutstanding ==
  /\ [](Cardinality(Outstanding) <= 1)
  /\ [](Outstanding # {} => (Outstanding = {Len(log)} /\ attempt \in 1..Retries
                              /\ pc = log[Len(log)].call))
  /\ [](attempt > 0 => Outstanding # {})
  /\ [][log' # log => (Outstanding = {} /\ attempt = 0)]_vars
  /\ [][attempt' > attempt => (Outstanding' = {Len(log')}
                                /\ (attempt > 0 => log' = log))]_vars

\* The logout is being retried and every request before it has settled.
C22_Witness ==
  /\ pc = "logout" /\ attempt = 2
  /\ Outstanding = {Len(log)}
  /\ Len(log) >= 6
  /\ \A c \in {"auth", "fetch", "gravity", "warmup", "patch"} : outcome[c] # NotCalled

(***************************************************************************)
(* C23: every run terminates.  When each attempt gets a response or times  *)
(* out, the run reaches its terminal state, logged out with success or     *)
(* with failure, whatever the responses and the configuration are, and     *)
(* stays there.                                                            *)
(***************************************************************************)
C23_Terminates == <>[]Finished

\* A run in which every attempt of the patch and of the logout timed out,
\* and which ended all the same.
C23_Witness ==
  /\ Finished
  /\ outcome["patch"] = NoResponse
  /\ outcome["logout"] = NoResponse
  /\ ReportedFailure /\ errorLog # <<>>

(***************************************************************************)
(* C24: no bulk-delete call is issued when the fetched set of entries is   *)
(* empty; otherwise exactly one is issued, and its payload has one item    *)
(* for every fetched entry, with the address and the kind of that entry,   *)
(* of whatever kind it is.                                                 *)
(***************************************************************************)
ItemOf(e) == [item |-> e.address, type |-> e.type]

C24_BulkDelete ==
  /\ Cardinality(RequestsOf("delete")) <= 1
  /\ existingLists = {} => ~Issued("delete")
  /\ (existingLists # {} /\ (pc # "delete" \/ attempt > 0)) => Issued("delete")
  /\ \A i \in RequestsOf("delete") :
       /\ \A e \in existingLists : ItemOf(e) \in log[i].body
       /\ \A b \in log[i].body : \E e \in existingLists : b = ItemOf(e)
       /\ Cardinality(log[i].body) = Cardinality(existingLists)
  /\ (Issued("delete") /\ outcome["delete"] = NotCalled) => existingLists = remote

\* Three entries were fetched, of both kinds, and the batch removed them.
C24_Witness ==
  /\ pc = "create" /\ createIdx = 1
  /\ existingLists = RemoteEntries
  /\ outcome["delete"] = 200
  /\ remote = {}
  /\ \E i \in RequestsOf("delete") : ItemOf(Entry("u3", "allow")) \in log[i].body

(***************************************************************************)
(* C25: when the config has no blocklists section the entries registered   *)
(* on the appliance are never changed by the run, and the DNS sections     *)
(* that are present are still reconciled.                                  *)
(***************************************************************************)
C25_AbsentBlocklistsFrame ==
  /\ [][BlocklistsAbsent => remote' = remote]_vars
  /\ []((BlocklistsAbsent /\ ~NoDnsSection /\ Finished /\ outcome["auth"] = 200)
          => /\ Issued("warmup") /\ Issued("patch")
             /\ \A i \in RequestsOf("patch") :
                  /\ IsArray(fileConfig.localDnsRecords) <=> "hosts" \in DOMAIN log[i].body
                  /\ IsArray(fileConfig.localDnsCnames) <=> "cnames" \in DOMAIN log[i].body)

\* No blocklists section: the three entries of the appliance are still
\* there after the run, and the DNS patch was applied.
C25_Witness ==
  /\ Finished /\ ~ReportedFailure
  /\ BlocklistsAbsent
  /\ remote = RemoteEntries
  /\ outcome["patch"] = 200
  /\ remoteDns # InitialRemoteDns

(***************************************************************************)
(* C26: after a successful DNS patch the remote value of each section the  *)
(* config has is exactly the serialized records of that section (an empty  *)
(* section clears it), and the remote value of a section the config does   *)
(* not have is unchanged.                                                  *)
(***************************************************************************)
C26_DnsFullReplace ==
  outcome["patch"] = 200 =>
    /\ IF IsArray(fileConfig.localDnsRecords)
       THEN LET recs == fileConfig.localDnsRecords.items
            IN /\ Len(remoteDns.hosts) = Len(recs)
               /\ \A i \in 1..Len(recs) :
                    IsJoinOf(remoteDns.hosts[i], recs[i].ip, " ", recs[i].domain)
       ELSE remoteDns.hosts = InitialRemoteDns.hosts
    /\ IF IsArray(fileConfig.localDnsCnames)
       THEN LET recs == fileConfig.localDnsCnames.items
            IN /\ Len(remoteDns.cnames) = Len(recs)
               /\ \A i \in 1..Len(recs) :
                    IsJoinOf(remoteDns.cnames[i], recs[i].domain, ",", recs[i].target)
       ELSE remoteDns.cnames = InitialRemoteDns.cnames

\* An empty localDnsRecords section and no localDnsCnames section: the
\* hosts of the appliance are cleared, its CNAMEs are the old ones.
C26_Witness ==
  /\ Finished
  /\ outcome["patch"] = 200
  /\ fileConfig.localDnsRecords = Arr(<<>>)
  /\ ~IsArray(fileConfig.localDnsCnames)
  /\ remoteDns.hosts = <<>>
  /\ remoteDns.cnames = InitialRemoteDns.cnames

(***************************************************************************)
(* The YAML-config variant (src/src/index.js): applyLocalDnsSettings, from *)
(* the state in which run() calls it (config loaded, authenticated, no     *)
(* blocklists section).  axiosRetry is given the global axios there, not   *)
(* the instance the requests are sent with, so a request has one attempt.  *)
(***************************************************************************)
YamlCalls == {"getDns", "updateDns"}

YamlResponsesOf(call) ==
  CASE call = "getDns" -> {200, 204, 500, NoResponse}
    [] call = "updateDns" -> {200, 204, 403, NoResponse}

\* const localDnsRecords = piholeConfig.localDnsRecordsFile;
YamlLocalDnsRecords(cfg) == cfg.localDnsRecordsFile

\* localDnsRecords && Array.isArray(localDnsRecords)
YamlHasAnyLocalDnsRecords(cfg) == IsArray(YamlLocalDnsRecords(cfg))

\* localDnsCnameRecords && Array.isArray(localDnsCnameRecords)
YamlHasAnyLocalDnsCnameRecords(cfg) == IsArray(cfg.localDnsCnames)

\* return dnsResponse.data.config.dns
YamlDnsOf(dns) == [hosts |-> Value(dns.hosts), cnames |-> Value(dns.cnames)]

\* if (bHasAnyLocalDnsRecords) dnsConfig.hosts = localDnsRecords.map(...)
YamlSetHosts(dns, cfg) ==
  IF YamlHasAnyLocalDnsRecords(cfg)
  THEN [dns EXCEPT !["hosts"] = Value(MapHosts(YamlLocalDnsRecords(cfg).items))]
  ELSE dns

\* if (bHasAnyLocalDnsCnameRecords) dnsConfig.cnames = ...map(...)
YamlSetCnames(dns, cfg) ==
  IF YamlHasAnyLocalDnsCnameRecords(cfg)
  THEN [dns EXCEPT !["cnames"] = Value(MapCnames(cfg.localDnsCnames.items))]
  ELSE dns

YamlGetDnsError(s) == StatusError("Failed to fetch DNS configuration with status: ", s)
YamlUpdateDnsError(s) == StatusError("Failed to update DNS configuration with status: ", s)

YamlApplyLocalDnsSettings ==
  /\ pc = "dns"
  /\ pc' = IF /\ ~YamlHasAnyLocalDnsRecords(piholeConfig)
              /\ ~YamlHasAnyLocalDnsCnameRecords(piholeConfig)
           THEN AfterTryCatch
           ELSE "getDns"
  /\ UNCHANGED <<fileState, fileConfig, piholeConfig, remote, remoteDns,
                 attempt, sid, existingLists, createIdx, dnsPatch, outcome,
                 lastResp, log, failedMsgs, errorLog, logoutInvoked>>

YamlGetDnsConfig ==
  /\ pc = "getDns"
  /\ \E r \in YamlResponsesOf("getDns") :
       /\ Request("getDns", NoBody)
       /\ Returned("getDns", r)
       /\ IF ~Succeeds(r) THEN Throw(AxiosError(r)) /\ UNCHANGED dnsPatch
          ELSE IF r # 200 THEN Throw(YamlGetDnsError(r)) /\ UNCHANGED dnsPatch
          ELSE /\ dnsPatch' = YamlSetCnames(YamlSetHosts(YamlDnsOf(remoteDns), piholeConfig),
                                            piholeConfig)
               /\ pc' = "updateDns"
               /\ UNCHANGED failedMsgs
  /\ UNCHANGED <<fileState, fileConfig, piholeConfig, remote, remoteDns, sid,
                 existingLists, createIdx, errorLog, logoutInvoked>>

YamlUpdateDnsConfig ==
  /\ pc = "updateDns"
  /\ \E r \in YamlResponsesOf("updateDns") :
       /\ Request("updateDns", dnsPatch)
       /\ Returned("updateDns", r)
       /\ IF ~Succeeds(r) THEN Throw(AxiosError(r)) /\ UNCHANGED remoteDns
          ELSE /\ remoteDns' = ApplyPatch(remoteDns, dnsPatch)
               /\ IF r # 200 THEN Throw(YamlUpdateDnsError(r))
                  ELSE pc' = AfterTryCatch /\ UNCHANGED failedMsgs
  /\ UNCHANGED <<fileState, fileConfig, piholeConfig, remote, sid,
                 existingLists, createIdx, dnsPatch, errorLog, logoutInvoked>>

\* The documents of this variant: the key the README names, the key the
\* code reads, and the CNAME section.
YamlFileConfigs ==
  [blocklists : {Undefined}, localDnsRecords : HostChoices,
   localDnsRecordsFile : HostChoices, localDnsCnames : CnameChoices]

InitYaml ==
  /\ fileState = "ok"
  /\ fileConfig \in YamlFileConfigs
  /\ piholeConfig = fileConfig
  /\ remote \in {{}, RemoteEntries}
  /\ remoteDns = InitialRemoteDns
  /\ pc = "dns"
  /\ attempt = 0
  /\ sid = SessionToken
  /\ existingLists = {}
  /\ createIdx = 1
  /\ dnsPatch = InitialDns
  /\ outcome = [c \in Calls \cup YamlCalls |-> IF c = "auth" THEN 200 ELSE NotCalled]
  /\ lastResp = NotCalled
  /\ log = <<[call |-> "auth", sid |-> NoToken, body |-> Password]>>
  /\ failedMsgs = <<>>
  /\ errorLog = <<>>
  /\ logoutInvoked = 0

NextYaml ==
  \/ YamlApplyLocalDnsSettings
  \/ YamlGetDnsConfig
  \/ YamlUpdateDnsConfig

SpecYaml == InitYaml /\ [][NextYaml]_vars

(***************************************************************************)
(* C27: in the YAML-config variant a config that has a localDnsRecords     *)
(* section causes a DNS update whose hosts section is the serialized       *)
(* localDnsRecords, as in the latest variant.  It fails: the variant reads *)
(* the key localDnsRecordsFile, so the section is not seen.                *)
(***************************************************************************)
C27_YamlHostsFromLocalDnsRecords ==
  (IsArray(fileConfig.localDnsRecords) /\ pc = AfterTryCatch /\ ~ReportedFailure)
    => \E i \in RequestsOf("updateDns") :
         log[i].body["hosts"] = BuildDnsConfig(fileConfig)["hosts"]

====
